---- MODULE Spec2Model ----
(***************************************************************************)
(* A model of the IPAM coordinator of pkg/ipam/allocator.go: the ownership *)
(* ledger (ipam.owner), the expiration timer table                         *)
(* (ipam.expirationTimers), the two per-family allocator backends, the     *)
(* blacklist, the callers of the multi-step operations and the background  *)
(* expiration watchers.  Every section of code that runs under             *)
(* ipam.allocatorMutex is one atomic action; the operations that take the  *)
(* lock several times (AllocateNext, AllocateNextWithExpiration,           *)
(* ReleaseIPString) are one action per lock acquisition, so that other     *)
(* callers and watchers interleave between them.  One caller is followed   *)
(* through such an operation; all other callers appear through the         *)
(* single-lock operations, of which the multi-step ones are composed.      *)
(* LockSpec follows the same code from one acquisition of the mutex to the *)
(* next, with the mutex and the blocked threads in the state.              *)
(***************************************************************************)
EXTENDS Integers, Sequences, FiniteSets, TLC

VARIABLES
    owner,              \* ipam.owner: map ip.String() -> owner name
    expirationTimers,   \* ipam.expirationTimers: map ip.String() -> UUID
    IPv4Allocator,      \* ipam.IPv4Allocator: nil, or the IPv4 backend
    IPv6Allocator,      \* ipam.IPv6Allocator: nil, or the IPv6 backend
    blacklist,          \* ipam.blacklist: the addresses never to hand out
    watchers,           \* goroutines spawned by StartExpirationTimer, asleep
    nextUUID,           \* number of UUIDs uuid.NewUUID has produced
    calls,              \* per caller: position in a multi-step operation
    last,               \* what the step just taken returned to its caller
    allocatorMutex,     \* ipam.allocatorMutex: the writer holding it, the writer
                        \* waiting for the readers to leave, the readers holding it
    threads             \* per thread followed lock by lock: where it is

vars == <<owner, expirationTimers, IPv4Allocator, IPv6Allocator, blacklist,
          watchers, nextUUID, calls, last, allocatorMutex, threads>>

-----------------------------------------------------------------------------
(* Bounds *)

MaxAddresses == 2   \* addresses of the IPv4 and IPv6 ranges together
MaxUUID == 2        \* UUIDs generated in one run
MaxLiveAddresses == 1   \* addresses of the runs checked for lease expiry

IPv4Names == <<"10.0.0.1", "10.0.0.2", "10.0.0.3">>
IPv6Names == <<"f00d::1">>
Owners == {"pod-a", "pod-b"}
Callers == {"c1"}
\* The callers followed from one Lock() or RLock() to the next
LockCallers == {"c1", "c2"}
NeedSyncUpstream == {TRUE, FALSE}

-----------------------------------------------------------------------------
(* Addresses (net.IP) and their string form *)

NilIP == [v4 |-> TRUE, n |-> 0]
V4Range(k) == {[v4 |-> TRUE, n |-> i] : i \in 1..k}
V6Range(k) == {[v4 |-> FALSE, n |-> i] : i \in 1..k}
AllIPs == V4Range(Len(IPv4Names)) \cup V6Range(Len(IPv6Names))

\* ip.To4() != nil
To4(ip) == ip.v4

\* ip.String()
IPString(ip) == IF ip.v4 THEN IPv4Names[ip.n] ELSE IPv6Names[ip.n]

\* net.ParseIP(s): nil unless s is the text of an address
ParseIP(s) ==
    IF \E ip \in AllIPs : IPString(ip) = s
    THEN CHOOSE ip \in AllIPs : IPString(ip) = s
    ELSE NilIP

Metadata(o) == [Owner |-> o]

\* fmt.Sprintf("%s (blacklisted)", metadata.Owner)
\* a blacklisted candidate recorded under the caller's own name
BlacklistedOwner_Plain(md) == md.Owner

BlacklistedOwner(md) == md.Owner \o " (blacklisted)"

\* a blacklist that is never consulted
BlacklistContains_Never(ip) == FALSE

\* a blacklist test that is always true
BlacklistContains_Always(ip) == TRUE

BlacklistContains(ip) == ip \in blacklist

(* Go maps: m[k] = v, delete(m, k), _, ok := m[k] *)
MapPut(m, k, v) == [x \in DOMAIN m \cup {k} |-> IF x = k THEN v ELSE m[x]]
MapDelete(m, k) == [x \in DOMAIN m \ {k} |-> m[x]]
MapHas(m, k) == k \in DOMAIN m
EmptyMap == [x \in {} |-> ""]

NoErr == ""

-----------------------------------------------------------------------------
(* The family allocator contract (external backends).  An allocator is the *)
(* addresses of its range (pool) and those it holds as allocated; nil is   *)
(* set for a family the IPAM was built without (pool then only names the   *)
(* addresses of that family that callers pass in).                         *)

Allocator(isNil, pool) == [nil |-> isNil, pool |-> pool, allocated |-> {}]

ErrBackendAllocate(ip) == "backend: cannot allocate " \o IPString(ip)
ErrBackendRelease(ip) == "backend: cannot release " \o IPString(ip)
ErrBackendNext == "backend: no address available"

\* Allocate(ip, metadata) and AllocateWithoutSyncUpstream(ip, metadata): the
\* address becomes allocated if it is free; the call may also fail.
BackendAllocate(a, ip, sync) ==
    {[allocator |-> [a EXCEPT !.allocated = @ \cup {x}], err |-> NoErr] :
        x \in (a.pool \ a.allocated) \cap {ip}}
    \cup {[allocator |-> a, err |-> ErrBackendAllocate(ip)]}

\* AllocateNext(metadata) and AllocateNextWithoutSyncUpstream(metadata): some
\* free address of the pool becomes allocated; the call may also fail, and
\* fails when the pool is exhausted.
BackendAllocateNext(a, sync) ==
    {[allocator |-> [a EXCEPT !.allocated = @ \cup {ip}], ip |-> ip, err |-> NoErr] :
        ip \in a.pool \ a.allocated}
    \cup {[allocator |-> a, ip |-> NilIP, err |-> ErrBackendNext]}

\* Release(ip): the address becomes free if it is allocated; the call may
\* also fail.
BackendRelease(a, ip) ==
    {[allocator |-> [a EXCEPT !.allocated = @ \ {x}], err |-> NoErr] :
        x \in a.allocated \cap {ip}}
    \cup {[allocator |-> a, err |-> ErrBackendRelease(ip)]}

-----------------------------------------------------------------------------
(* The code that runs with ipam.allocatorMutex held.  Each operator gives  *)
(* the set of outcomes of one execution from the current state: the new    *)
(* ledger, timer table and backends, and what the code returns.            *)

Outcome(own, timers, a4, a6, err) ==
    [owner |-> own, expirationTimers |-> timers, v4 |-> a4, v6 |-> a6, err |-> err]

Unchanged(err) == Outcome(owner, expirationTimers, IPv4Allocator, IPv6Allocator, err)

\* fmt.Errorf("IP %s is blacklisted, owned by %s", ip.String(), metadata.Owner)
ErrBlacklisted(ip, metadata) ==
    "IP " \o IPString(ip) \o " is blacklisted, owned by " \o metadata.Owner
ErrIPv4Disabled == "IPv4 allocation disabled"
ErrIPv6Disabled == "IPv6 allocation disabled"

\* allocateIP with the family test moved before the blacklist test
allocateIP_FamilyFirst(ip, needSyncUpstream, metadata) ==
    IF To4(ip) /\ IPv4Allocator.nil THEN {Unchanged(ErrIPv4Disabled)}
    ELSE IF ~To4(ip) /\ IPv6Allocator.nil THEN {Unchanged(ErrIPv6Disabled)}
    ELSE IF BlacklistContains(ip) THEN {Unchanged(ErrBlacklisted(ip, metadata))}
    ELSE IF To4(ip) THEN
        {IF r.err # NoErr THEN Unchanged(r.err)
         ELSE Outcome(MapPut(owner, IPString(ip), metadata.Owner),
                      expirationTimers, r.allocator, IPv6Allocator, NoErr) :
            r \in BackendAllocate(IPv4Allocator, ip, needSyncUpstream)}
    ELSE
        {IF r.err # NoErr THEN Unchanged(r.err)
         ELSE Outcome(MapPut(owner, IPString(ip), metadata.Owner),
                      expirationTimers, IPv4Allocator, r.allocator, NoErr) :
            r \in BackendAllocate(IPv6Allocator, ip, needSyncUpstream)}

\* allocateIP writing the ledger before it calls the backend
allocateIP_WritesFirst(ip, needSyncUpstream, metadata) ==
    IF BlacklistContains(ip) THEN {Unchanged(ErrBlacklisted(ip, metadata))}
    ELSE IF To4(ip) THEN
        IF IPv4Allocator.nil THEN {Unchanged(ErrIPv4Disabled)}
        ELSE {Outcome(MapPut(owner, IPString(ip), metadata.Owner),
                      expirationTimers, r.allocator, IPv6Allocator, r.err) :
                r \in BackendAllocate(IPv4Allocator, ip, needSyncUpstream)}
    ELSE
        IF IPv6Allocator.nil THEN {Unchanged(ErrIPv6Disabled)}
        ELSE {Outcome(MapPut(owner, IPString(ip), metadata.Owner),
                      expirationTimers, IPv4Allocator, r.allocator, r.err) :
                r \in BackendAllocate(IPv6Allocator, ip, needSyncUpstream)}

allocateIP(ip, needSyncUpstream, metadata) ==
    IF BlacklistContains(ip) THEN {Unchanged(ErrBlacklisted(ip, metadata))}
    ELSE IF To4(ip) THEN
        IF IPv4Allocator.nil THEN {Unchanged(ErrIPv4Disabled)}
        ELSE {IF r.err # NoErr THEN Unchanged(r.err)
              ELSE Outcome(MapPut(owner, IPString(ip), metadata.Owner),
                           expirationTimers, r.allocator, IPv6Allocator, NoErr) :
                r \in BackendAllocate(IPv4Allocator, ip, needSyncUpstream)}
    ELSE
        IF IPv6Allocator.nil THEN {Unchanged(ErrIPv6Disabled)}
        ELSE {IF r.err # NoErr THEN Unchanged(r.err)
              ELSE Outcome(MapPut(owner, IPString(ip), metadata.Owner),
                           expirationTimers, IPv4Allocator, r.allocator, NoErr) :
                r \in BackendAllocate(IPv6Allocator, ip, needSyncUpstream)}

\* releaseIPLocked without delete(ipam.expirationTimers, ip.String())
released_KeepsTimer(ip, a4, a6) ==
    Outcome(MapDelete(owner, IPString(ip)), expirationTimers, a4, a6, NoErr)

\* releaseIPLocked forgetting what the backend released
released_LedgerOnly(ip, a4, a6) ==
    Outcome(MapDelete(owner, IPString(ip)),
            MapDelete(expirationTimers, IPString(ip)),
            IPv4Allocator, IPv6Allocator, NoErr)

\* The tail of releaseIPLocked, after the backend released ip
released(ip, a4, a6) ==
    Outcome(MapDelete(owner, IPString(ip)),
            MapDelete(expirationTimers, IPString(ip)), a4, a6, NoErr)

\* releaseIPLocked deleting the two entries before it calls the backend
releaseIPLocked_DeletesFirst(ip) ==
    IF To4(ip) THEN
        IF IPv4Allocator.nil THEN {Unchanged(ErrIPv4Disabled)}
        ELSE {Outcome(MapDelete(owner, IPString(ip)),
                      MapDelete(expirationTimers, IPString(ip)),
                      r.allocator, IPv6Allocator, r.err) :
                r \in BackendRelease(IPv4Allocator, ip)}
    ELSE
        IF IPv6Allocator.nil THEN {Unchanged(ErrIPv6Disabled)}
        ELSE {Outcome(MapDelete(owner, IPString(ip)),
                      MapDelete(expirationTimers, IPString(ip)),
                      IPv4Allocator, r.allocator, r.err) :
                r \in BackendRelease(IPv6Allocator, ip)}

releaseIPLocked(ip) ==
    IF To4(ip) THEN
        IF IPv4Allocator.nil THEN {Unchanged(ErrIPv4Disabled)}
        ELSE {IF r.err # NoErr THEN Unchanged(r.err)
              ELSE released(ip, r.allocator, IPv6Allocator) :
                r \in BackendRelease(IPv4Allocator, ip)}
    ELSE
        IF IPv6Allocator.nil THEN {Unchanged(ErrIPv6Disabled)}
        ELSE {IF r.err # NoErr THEN Unchanged(r.err)
              ELSE released(ip, IPv4Allocator, r.allocator) :
                r \in BackendRelease(IPv6Allocator, ip)}

\* fmt.Errorf("unknown address \"%s\" family requested", family)
ErrUnknownFamily(family) == "unknown address \"" \o family \o "\" family requested"
\* fmt.Errorf("%s allocator not available", family)
ErrNotAvailable(family) == family \o " allocator not available"

\* The for loop of allocateNextFamily, from the backend state a and the
\* ledger own, in its n-th iteration.
RECURSIVE allocateNextLoop(_, _, _, _, _)
allocateNextLoop(a, own, needSyncUpstream, metadata, n) ==
    UNION {
        IF r.err # NoErr
        THEN {[allocator |-> a, owner |-> own, ip |-> NilIP, err |-> r.err,
               iterations |-> n]}
        ELSE IF ~BlacklistContains(r.ip)
        THEN {[allocator |-> r.allocator,
               owner |-> MapPut(own, IPString(r.ip), metadata.Owner),
               ip |-> r.ip, err |-> NoErr, iterations |-> n]}
        ELSE allocateNextLoop(r.allocator,
                              MapPut(own, IPString(r.ip), BlacklistedOwner(metadata)),
                              needSyncUpstream, metadata, n + 1) :
        r \in BackendAllocateNext(a, needSyncUpstream)}

ResultOf(o, ip, n) ==
    [owner |-> o.owner, expirationTimers |-> o.expirationTimers, v4 |-> o.v4,
     v6 |-> o.v6, err |-> o.err, ip |-> ip, iterations |-> n]

allocateNextFamily(family, needSyncUpstream, metadata) ==
    IF family \notin {"ipv6", "ipv4"}
    THEN {ResultOf(Unchanged(ErrUnknownFamily(family)), NilIP, 0)}
    ELSE IF family = "ipv6" THEN
        IF IPv6Allocator.nil THEN {ResultOf(Unchanged(ErrNotAvailable(family)), NilIP, 0)}
        ELSE {ResultOf(Outcome(r.owner, expirationTimers, IPv4Allocator,
                               r.allocator, r.err), r.ip, r.iterations) :
                r \in allocateNextLoop(IPv6Allocator, owner,
                                       needSyncUpstream, metadata, 1)}
    ELSE
        IF IPv4Allocator.nil THEN {ResultOf(Unchanged(ErrNotAvailable(family)), NilIP, 0)}
        ELSE {ResultOf(Outcome(r.owner, expirationTimers, r.allocator,
                               IPv6Allocator, r.err), r.ip, r.iterations) :
                r \in allocateNextLoop(IPv4Allocator, owner,
                                       needSyncUpstream, metadata, 1)}

ErrAlreadyRegistered == "expiration timer already registered"
ErrNotRegistered == "no expiration timer registered"
ErrUUIDMismatch == "UUID mismatch, not stopping expiration timer"
\* fmt.Errorf("Invalid IP address or owner name: %s", releaseArg)
ErrNotFound(releaseArg) == "Invalid IP address or owner name: " \o releaseArg

NoUUID == 0

\* uuid.NewUUID(): a UUID never produced before
NewUUID == nextUUID + 1

\* StartExpirationTimer without the test for a registered timer
startExpirationTimer_Overwrites(ip) ==
    [expirationTimers |-> MapPut(expirationTimers, IPString(ip), NewUUID),
     uuid |-> NewUUID,
     spawned |-> {[ip |-> ip, allocationUUID |-> NewUUID]},
     err |-> NoErr]

\* StartExpirationTimer under the lock: the new timer table, the UUID
\* returned and the goroutine spawned.
startExpirationTimer(ip) ==
    IF MapHas(expirationTimers, IPString(ip))
    THEN [expirationTimers |-> expirationTimers, uuid |-> NoUUID,
          spawned |-> {}, err |-> ErrAlreadyRegistered]
    ELSE [expirationTimers |-> MapPut(expirationTimers, IPString(ip), NewUUID),
          uuid |-> NewUUID,
          spawned |-> {[ip |-> ip, allocationUUID |-> NewUUID]},
          err |-> NoErr]

stopExpirationTimer(ip, allocationUUID) ==
    IF ~MapHas(expirationTimers, IPString(ip))
    THEN [expirationTimers |-> expirationTimers, err |-> ErrNotRegistered]
    ELSE IF expirationTimers[IPString(ip)] # allocationUUID
    THEN [expirationTimers |-> expirationTimers, err |-> ErrUUIDMismatch]
    ELSE [expirationTimers |-> MapDelete(expirationTimers, IPString(ip)),
          err |-> NoErr]

\* the watcher without the comparison of the UUIDs
watcherReleases_AnyUUID(ipString, allocationUUID) ==
    MapHas(expirationTimers, ipString)

\* the watcher releasing whatever the timer table holds
watcherReleases_Always(ipString, allocationUUID) == TRUE

\* the watcher never releasing
watcherReleases_Never(ipString, allocationUUID) == FALSE

\* The test the watcher goroutine makes once it holds the lock
watcherReleases(ipString, allocationUUID) ==
    /\ MapHas(expirationTimers, ipString)
    /\ expirationTimers[ipString] = allocationUUID

\* The addresses the ledger attributes to o
lookupIPsByOwner(o) ==
    {ParseIP(k) : k \in {x \in DOMAIN owner : owner[x] = o /\ ParseIP(x) # NilIP}}

\* The orders in which ranging over the Go map can yield the addresses of S
RECURSIVE Orders(_)
Orders(S) ==
    IF S = {} THEN {<<>>}
    ELSE UNION {{<<x>> \o rest : rest \in Orders(S \ {x})} : x \in S}

Apply(o) ==
    /\ owner' = o.owner
    /\ expirationTimers' = o.expirationTimers
    /\ IPv4Allocator' = o.v4
    /\ IPv6Allocator' = o.v6

-----------------------------------------------------------------------------
(* Initial state: an IPAM with empty ledger and timer table.  The ranges   *)
(* of the two families, which of the families have an allocator and the    *)
(* blacklist are fixed at construction.                                    *)

\* The addresses the callers pass in: those of the two ranges
Addresses == IPv4Allocator.pool \cup IPv6Allocator.pool

\* The sizes of the IPv4 and of the IPv6 range
RangeSizes ==
    {k \in (0..Len(IPv4Names)) \X (0..Len(IPv6Names)) : k[1] + k[2] <= MaxAddresses}

IdleCall == [pc |-> "idle"]

\* No thread: the zero value of the mutex has no holder
NoThread == ""
\* The zero value of sync.RWMutex
Unlocked == [writer |-> NoThread, pending |-> NoThread, readers |-> {}]

\* No call has returned since the last return value was taken.
None == [op |-> "none"]

Init ==
    /\ owner = EmptyMap
    /\ expirationTimers = EmptyMap
    /\ \E k \in RangeSizes, nil4 \in BOOLEAN, nil6 \in BOOLEAN :
        /\ k[1] = 0 => nil4
        /\ k[2] = 0 => nil6
        /\ IPv4Allocator = Allocator(nil4, V4Range(k[1]))
        /\ IPv6Allocator = Allocator(nil6, V6Range(k[2]))
    /\ blacklist \in SUBSET Addresses
    /\ watchers = {}
    /\ nextUUID = 0
    /\ calls = [c \in Callers |-> IdleCall]
    /\ last = None
    /\ allocatorMutex = Unlocked
    /\ threads = [t \in LockCallers |-> IdleCall]

\* last is a history variable: what the step just taken returned to its
\* caller.  The caller takes it (Return) before the next step is recorded.
Ready == last = None

Return ==
    /\ ~Ready
    /\ last' = None
    /\ UNCHANGED <<owner, expirationTimers, IPv4Allocator, IPv6Allocator,
                   blacklist, watchers, nextUUID, calls,
                   allocatorMutex, threads>>

-----------------------------------------------------------------------------
(* Operations that take the lock once *)

\* AllocateIP and AllocateIPWithoutSyncUpstream
AllocateIP(ip, o) ==
    /\ Ready
    /\ \E r \in UNION {allocateIP(ip, sync, Metadata(o)) : sync \in NeedSyncUpstream} :
        /\ Apply(r)
        /\ last' = [op |-> "AllocateIP", ip |-> ip, err |-> r.err]
    /\ UNCHANGED <<blacklist, watchers, nextUUID, calls,
                   allocatorMutex, threads>>

\* AllocateNextFamily and AllocateNextFamilyWithoutSyncUpstream
AllocateNextFamily(family, o) ==
    /\ Ready
    /\ \E r \in UNION {allocateNextFamily(family, sync, Metadata(o)) :
                        sync \in NeedSyncUpstream} :
        /\ Apply(r)
        /\ last' = [op |-> "AllocateNextFamily", family |-> family, owner |-> o,
                    ip |-> r.ip, err |-> r.err, iterations |-> r.iterations]
    /\ UNCHANGED <<blacklist, watchers, nextUUID, calls,
                   allocatorMutex, threads>>

ReleaseIP(ip) ==
    /\ Ready
    /\ \E r \in releaseIPLocked(ip) :
        /\ Apply(r)
        /\ last' = [op |-> "ReleaseIP", ip |-> ip, err |-> r.err]
    /\ UNCHANGED <<blacklist, watchers, nextUUID, calls,
                   allocatorMutex, threads>>

StartExpirationTimer(ip) ==
    /\ Ready
    /\ LET r == startExpirationTimer(ip) IN
        /\ r.err = NoErr => nextUUID < MaxUUID
        /\ expirationTimers' = r.expirationTimers
        /\ watchers' = watchers \cup r.spawned
        /\ nextUUID' = IF r.err = NoErr THEN r.uuid ELSE nextUUID
        /\ last' = [op |-> "StartExpirationTimer", ip |-> ip, uuid |-> r.uuid,
                    err |-> r.err]
    /\ UNCHANGED <<owner, IPv4Allocator, IPv6Allocator, blacklist, calls,
                   allocatorMutex, threads>>

StopExpirationTimer(ip, allocationUUID) ==
    /\ Ready
    /\ LET r == stopExpirationTimer(ip, allocationUUID) IN
        /\ expirationTimers' = r.expirationTimers
        /\ last' = [op |-> "StopExpirationTimer", ip |-> ip,
                    uuid |-> allocationUUID, err |-> r.err]
    /\ UNCHANGED <<owner, IPv4Allocator, IPv6Allocator, blacklist, watchers,
                   nextUUID, calls,
                   allocatorMutex, threads>>

\* The goroutine of StartExpirationTimer, after time.Sleep(timeout)
Watcher(w) ==
    /\ Ready
    /\ w \in watchers
    /\ watchers' = watchers \ {w}
    /\ IF watcherReleases(IPString(w.ip), w.allocationUUID)
       THEN \E r \in releaseIPLocked(w.ip) :
               /\ Apply(r)
               /\ last' = [op |-> "Watcher", ip |-> w.ip,
                           uuid |-> w.allocationUUID, released |-> TRUE,
                           err |-> r.err]
       ELSE /\ UNCHANGED <<owner, expirationTimers, IPv4Allocator, IPv6Allocator>>
            /\ last' = [op |-> "Watcher", ip |-> w.ip,
                        uuid |-> w.allocationUUID, released |-> FALSE,
                        err |-> NoErr]
    /\ UNCHANGED <<blacklist, nextUUID, calls,
                   allocatorMutex, threads>>

\* owner, _ := ipam.owner[ip]: the zero value for a missing key
MapGet(m, k) == IF MapHas(m, k) THEN m[k] ELSE ""

\* Dump() of a backend: the addresses it holds, each with the owner it was
\* given, and a status string
BackendDump(a) ==
    [alloc |-> [k \in {IPString(ip) : ip \in a.allocated} |-> "backend"],
     status |-> IF a.allocated = {} THEN "0 allocated" ELSE "some allocated"]

\* strings.Join(elems, sep)
RECURSIVE StringsJoin(_, _)
StringsJoin(elems, sep) ==
    IF Len(elems) = 0 THEN ""
    ELSE IF Len(elems) = 1 THEN elems[1]
    ELSE elems[1] \o sep \o StringsJoin(Tail(elems), sep)

\* Dump under the read lock: allocv4, allocv6 (a nil map has no keys) and status
dump ==
    LET d4 == BackendDump(IPv4Allocator)
        d6 == BackendDump(IPv6Allocator)
        st4 == IF IPv4Allocator.nil THEN "" ELSE "IPv4: " \o d4.status
        st6 == IF IPv6Allocator.nil THEN "" ELSE "IPv6: " \o d6.status
        joined == StringsJoin(<<st4, st6>>, ", ")
    IN [allocv4 |-> IF IPv4Allocator.nil THEN EmptyMap
                    ELSE [k \in DOMAIN d4.alloc |-> MapGet(owner, k)],
        allocv6 |-> IF IPv6Allocator.nil THEN EmptyMap
                    ELSE [k \in DOMAIN d6.alloc |-> MapGet(owner, k)],
        status |-> IF joined = "" THEN "Not running" ELSE joined]

Dump ==
    /\ Ready
    /\ LET r == dump IN
        last' = [op |-> "Dump", allocv4 |-> r.allocv4, allocv6 |-> r.allocv6,
                 status |-> r.status]
    /\ UNCHANGED <<owner, expirationTimers, IPv4Allocator, IPv6Allocator,
                   blacklist, watchers, nextUUID, calls,
                   allocatorMutex, threads>>

-----------------------------------------------------------------------------
(* AllocateNext and AllocateNextWithExpiration: one step per call that     *)
(* takes the lock (AllocateNextFamily, StartExpirationTimer, ReleaseIP).   *)

\* The conditions of AllocateNext's two if statements
wantsIPv6(family) == (family = "ipv6" \/ family = "") /\ ~IPv6Allocator.nil
wantsIPv4(family) == (family = "ipv4" \/ family = "") /\ ~IPv4Allocator.nil

\* AllocateNext without its rollback
rollbackOfAllocateNext_None(ipv6Result) == <<>>

\* AllocateNext, after the IPv4 allocation failed: the IPv6 address to release
rollbackOfAllocateNext(ipv6Result) ==
    IF ipv6Result # NilIP THEN <<ipv6Result>> ELSE <<>>

\* AllocateNextWithExpiration releasing only the IPv6 address
rollbackOfExpiration_IPv6Only(ipv4Result, ipv6Result) ==
    IF ipv6Result # NilIP THEN <<ipv6Result>> ELSE <<>>

\* AllocateNextWithExpiration, after StartExpirationTimer failed: the
\* addresses to release, in the order of the code
rollbackOfExpiration(ipv4Result, ipv6Result) ==
    (IF ipv4Result # NilIP THEN <<ipv4Result>> ELSE <<>>)
    \o (IF ipv6Result # NilIP THEN <<ipv6Result>> ELSE <<>>)

\* range []*AllocationResult{ipv4Result, ipv6Result}, the nil results skipped
resultsToExpire(timeout, ipv4Result, ipv6Result) ==
    IF timeout = 0 THEN <<>>
    ELSE (IF ipv4Result # NilIP THEN <<ipv4Result>> ELSE <<>>)
         \o (IF ipv6Result # NilIP THEN <<ipv6Result>> ELSE <<>>)

\* What the call returns to its caller (r4, r6, err), with the addresses
\* the call had allocated and the outcome of each release of its rollback
Returned(call, r4, r6, err) ==
    [op |-> call.op, family |-> call.family, owner |-> call.owner,
     timeout |-> call.timeout, ipv4Result |-> r4, ipv6Result |-> r6,
     err |-> err, allocated4 |-> call.ipv4Result, allocated6 |-> call.ipv6Result,
     failedTimer |-> call.failedTimer, rollback |-> call.rollback]

\* AllocateNext has returned without error; AllocateNextWithExpiration goes on
\* to start the timers.
AfterAllocateNext(c, call) ==
    LET todo == IF call.op = "AllocateNextWithExpiration"
                THEN resultsToExpire(call.timeout, call.ipv4Result, call.ipv6Result)
                ELSE <<>>
    IN IF todo = <<>>
       THEN /\ calls' = [calls EXCEPT ![c] = IdleCall]
            /\ last' = Returned(call, call.ipv4Result, call.ipv6Result, NoErr)
       ELSE /\ calls' = [calls EXCEPT ![c] = [call EXCEPT !.pc = "timers", !.todo = todo]]
            /\ last' = last

\* The first if statement of AllocateNext
AllocateNextIPv6(c, op, family, o, timeout) ==
    /\ Ready
    /\ calls[c].pc = "idle"
    /\ LET call == [pc |-> "ipv4", op |-> op, family |-> family, owner |-> o,
                    timeout |-> timeout, ipv4Result |-> NilIP, ipv6Result |-> NilIP,
                    err |-> NoErr, todo |-> <<>>, failedTimer |-> NilIP,
                    rollback |-> <<>>]
       IN IF wantsIPv6(family)
          THEN \E r \in allocateNextFamily("ipv6", TRUE, Metadata(o)) :
                /\ Apply(r)
                /\ IF r.err # NoErr
                   THEN /\ calls' = [calls EXCEPT ![c] = IdleCall]
                        /\ last' = Returned(call, NilIP, NilIP, r.err)
                   ELSE /\ calls' = [calls EXCEPT ![c] =
                                [call EXCEPT !.ipv6Result = r.ip]]
                        /\ last' = last
          ELSE /\ calls' = [calls EXCEPT ![c] = call]
               /\ last' = last
               /\ UNCHANGED <<owner, expirationTimers, IPv4Allocator, IPv6Allocator>>
    /\ UNCHANGED <<blacklist, watchers, nextUUID,
                   allocatorMutex, threads>>

\* The second if statement of AllocateNext
AllocateNextIPv4(c) ==
    /\ Ready
    /\ calls[c].pc = "ipv4"
    /\ LET call == calls[c] IN
       IF wantsIPv4(call.family)
       THEN \E r \in allocateNextFamily("ipv4", TRUE, Metadata(call.owner)) :
             /\ Apply(r)
             /\ IF r.err # NoErr
                THEN LET todo == rollbackOfAllocateNext(call.ipv6Result) IN
                     IF todo = <<>>
                     THEN /\ calls' = [calls EXCEPT ![c] = IdleCall]
                          /\ last' = Returned(call, NilIP, NilIP, r.err)
                     ELSE /\ calls' = [calls EXCEPT ![c] =
                                [call EXCEPT !.pc = "rollback", !.todo = todo,
                                             !.err = r.err]]
                          /\ last' = last
                ELSE AfterAllocateNext(c, [call EXCEPT !.ipv4Result = r.ip])
       ELSE /\ AfterAllocateNext(c, call)
            /\ UNCHANGED <<owner, expirationTimers, IPv4Allocator, IPv6Allocator>>
    /\ UNCHANGED <<blacklist, watchers, nextUUID,
                   allocatorMutex, threads>>

\* One iteration of the loop of AllocateNextWithExpiration
AllocateNextStartTimer(c) ==
    /\ Ready
    /\ calls[c].pc = "timers"
    /\ LET call == calls[c]
           ip == Head(call.todo)
           r == startExpirationTimer(ip)
       IN /\ r.err = NoErr => nextUUID < MaxUUID
          /\ expirationTimers' = r.expirationTimers
          /\ watchers' = watchers \cup r.spawned
          /\ nextUUID' = IF r.err = NoErr THEN r.uuid ELSE nextUUID
          /\ IF r.err # NoErr
             THEN /\ calls' = [calls EXCEPT ![c] =
                        [call EXCEPT !.pc = "unwind", !.err = r.err,
                            !.failedTimer = ip,
                            !.todo = rollbackOfExpiration(call.ipv4Result,
                                                          call.ipv6Result)]]
                  /\ last' = last
             ELSE LET call2 == [call EXCEPT !.todo = Tail(@)]
                  IN IF call2.todo = <<>>
                     THEN /\ calls' = [calls EXCEPT ![c] = IdleCall]
                          /\ last' = Returned(call2, call.ipv4Result,
                                              call.ipv6Result, NoErr)
                     ELSE /\ calls' = [calls EXCEPT ![c] = call2]
                          /\ last' = last
    /\ UNCHANGED <<owner, IPv4Allocator, IPv6Allocator, blacklist,
                   allocatorMutex, threads>>

\* ipam.ReleaseIP(result.IP), its error dropped: in AllocateNext after the IPv4
\* allocation failed (pc "rollback"), in AllocateNextWithExpiration after
\* StartExpirationTimer failed (pc "unwind")
AllocateNextRollback(c) ==
    /\ Ready
    /\ calls[c].pc \in {"rollback", "unwind"}
    /\ LET call == calls[c]
           ip == Head(call.todo)
       IN \E r \in releaseIPLocked(ip) :
            /\ Apply(r)
            /\ LET call2 == [call EXCEPT !.todo = Tail(@),
                                !.rollback = Append(@, [ip |-> ip, err |-> r.err])]
               IN IF call2.todo = <<>>
                  THEN /\ calls' = [calls EXCEPT ![c] = IdleCall]
                       /\ last' = IF call.pc = "rollback"
                                     /\ call.op = "AllocateNextWithExpiration"
                                  THEN Returned(call2, NilIP, NilIP, call.err)
                                  ELSE Returned(call2, call.ipv4Result,
                                                call.ipv6Result, call.err)
                  ELSE /\ calls' = [calls EXCEPT ![c] = call2]
                       /\ last' = last
    /\ UNCHANGED <<blacklist, watchers, nextUUID,
                   allocatorMutex, threads>>

-----------------------------------------------------------------------------
(* ReleaseIPString: the lookup under the read lock, then one ReleaseIP per *)
(* address found.                                                          *)

ReleaseIPStringLookup(c, releaseArg) ==
    /\ Ready
    /\ calls[c].pc = "idle"
    /\ LET ip == ParseIP(releaseArg) IN
       \E ips \in IF ip = NilIP THEN Orders(lookupIPsByOwner(releaseArg))
                  ELSE {<<ip>>} :
          IF Len(ips) = 0
          THEN /\ calls' = calls
               /\ last' = [op |-> "ReleaseIPString", releaseArg |-> releaseArg,
                           ips |-> ips, attempts |-> <<>>, err |-> ErrNotFound(releaseArg)]
          ELSE /\ calls' = [calls EXCEPT ![c] =
                    [pc |-> "release", op |-> "ReleaseIPString",
                     releaseArg |-> releaseArg, ips |-> ips, todo |-> ips,
                     attempts |-> <<>>, err |-> NoErr]]
               /\ last' = last
    /\ UNCHANGED <<owner, expirationTimers, IPv4Allocator, IPv6Allocator,
                   blacklist, watchers, nextUUID,
                   allocatorMutex, threads>>

\* ReleaseIPString keeping the first error
releaseErr_First(err, err2) == IF err # NoErr THEN err ELSE err2

\* if err2 := ipam.ReleaseIP(parsedIP); err2 != nil { err = err2 }
releaseErr(err, err2) == IF err2 # NoErr THEN err2 ELSE err

\* One iteration of the loop of ReleaseIPString
ReleaseIPStringRelease(c) ==
    /\ Ready
    /\ calls[c].pc = "release"
    /\ LET call == calls[c]
           parsedIP == Head(call.todo)
       IN \E r \in releaseIPLocked(parsedIP) :
            /\ Apply(r)
            /\ LET call2 == [call EXCEPT
                                !.todo = Tail(@),
                                !.err = releaseErr(@, r.err),
                                !.attempts = Append(@, [ip |-> parsedIP,
                                                        err |-> r.err])]
               IN IF call2.todo = <<>>
                  THEN /\ calls' = [calls EXCEPT ![c] = IdleCall]
                       /\ last' = [op |-> "ReleaseIPString",
                                   releaseArg |-> call.releaseArg,
                                   ips |-> call.ips, attempts |-> call2.attempts,
                                   err |-> call2.err]
                  ELSE /\ calls' = [calls EXCEPT ![c] = call2]
                       /\ last' = last
    /\ UNCHANGED <<blacklist, watchers, nextUUID,
                   allocatorMutex, threads>>

-----------------------------------------------------------------------------

Families == {"ipv4", "ipv6", "ipv5"}
FamilyFilters == {"", "ipv4", "ipv6"}
Timeouts == {0, 50}
\* metadata.Owner of the caller followed through a multi-step operation
CallOwner == [c \in Callers |-> "pod-a"]
ReleaseArgs ==
    Owners \cup {BlacklistedOwner(Metadata(o)) : o \in Owners}
           \cup {IPString(ip) : ip \in Addresses}

Next ==
    \/ \E ip \in Addresses, o \in Owners : AllocateIP(ip, o)
    \/ \E f \in Families, o \in Owners : AllocateNextFamily(f, o)
    \/ \E ip \in Addresses : ReleaseIP(ip)
    \/ \E ip \in Addresses : StartExpirationTimer(ip)
    \/ \E ip \in Addresses, u \in 1..MaxUUID : StopExpirationTimer(ip, u)
    \/ \E w \in watchers : Watcher(w)
    \/ \E c \in Callers, f \in FamilyFilters :
            AllocateNextIPv6(c, "AllocateNext", f, CallOwner[c], 0)
    \/ \E c \in Callers, f \in FamilyFilters, t \in Timeouts :
            AllocateNextIPv6(c, "AllocateNextWithExpiration", f, CallOwner[c], t)
    \/ \E c \in Callers : AllocateNextIPv4(c)
    \/ \E c \in Callers : AllocateNextStartTimer(c)
    \/ \E c \in Callers : AllocateNextRollback(c)
    \/ \E c \in Callers, a \in ReleaseArgs : ReleaseIPStringLookup(c, a)
    \/ \E c \in Callers : ReleaseIPStringRelease(c)
    \/ Dump
    \/ Return

Spec == Init /\ [][Next]_vars

LiveInit == Init /\ Cardinality(Addresses) <= MaxLiveAddresses

\* The addresses of the ranges that LiveInit allows
LiveIPs == V4Range(MaxLiveAddresses) \cup (AllIPs \cap V6Range(MaxLiveAddresses))

\* The goroutines that StartExpirationTimer can spawn
Goroutines == {[ip |-> ip, allocationUUID |-> u] : ip \in LiveIPs, u \in 1..MaxUUID}

\* Scheduling: a goroutine whose time.Sleep is over blocks in
\* allocatorMutex.Lock() and the mutex, which does not starve a waiter, hands
\* it the lock at some point although other callers keep taking it; a call
\* that has returned hands its results to its caller.
FairSpec ==
    /\ LiveInit
    /\ [][Next]_vars
    /\ WF_vars(Return)
    /\ \A w \in Goroutines : SF_vars(Watcher(w))

-----------------------------------------------------------------------------
(* The same code lock by lock.  A thread (a caller, or a goroutine of      *)
(* StartExpirationTimer whose time.Sleep is over) blocks in Lock() or      *)
(* RLock(), acquires the mutex, and runs the section up to the deferred    *)
(* Unlock() or RUnlock().  sync.RWMutex is not reentrant: a thread that    *)
(* asks for a mutex it holds blocks like any other.  The callers of        *)
(* Callers run the operations that take the lock several times, the other  *)
(* callers the functions that take it once.                                *)

\* What a function does first: allocatorMutex.Lock(), allocatorMutex.RLock(),
\* or neither
Acquires(fn) ==
    CASE fn \in {"allocateIP", "AllocateNextFamily", "ReleaseIP",
                 "StartExpirationTimer", "StopExpirationTimer", "watcher"} -> "Lock"
      [] fn \in {"lookupIPsByOwner", "Dump"} -> "RLock"
      [] OTHER -> ""

\* the watcher goroutine calling ipam.ReleaseIP
CalledUnderLock_WatcherReleaseIP(fn) ==
    CASE fn = "AllocateNextFamily" -> "allocateNextFamily"
      [] fn = "ReleaseIP" -> "releaseIPLocked"
      [] fn = "watcher" -> "ReleaseIP"
      [] OTHER -> ""

\* The function of the coordinator that fn calls with the mutex held
CalledUnderLock(fn) ==
    CASE fn = "AllocateNextFamily" -> "allocateNextFamily"
      [] fn \in {"ReleaseIP", "watcher"} -> "releaseIPLocked"
      [] OTHER -> ""

\* The arguments of a section
NoArg ==
    [ip |-> NilIP, owner |-> "", sync |-> TRUE, family |-> "", uuid |-> NoUUID,
     releaseArg |-> ""]

\* A thread that has reached the first statement of fn
Entered(fn, arg, call) == [pc |-> Acquires(fn), fn |-> fn, arg |-> arg, call |-> call]

\* The thread t holds the mutex
Holds(t) == allocatorMutex.writer = t \/ t \in allocatorMutex.readers

\* The threads that the unlock of t lets in: Unlock() admits the readers
\* blocked in RLock(), the RUnlock() of the last reader the writer that waits
\* for the readers to leave
Admitted(t) ==
    IF allocatorMutex.writer = t
    THEN {x \in DOMAIN threads : threads[x].pc = "RLock"}
    ELSE IF allocatorMutex.readers \ {t} = {}
    THEN {allocatorMutex.pending} \ {NoThread}
    ELSE {}

\* defer ipam.allocatorMutex.Unlock() and defer ipam.allocatorMutex.RUnlock()
DeferredUnlock(t) ==
    IF allocatorMutex.writer = t
    THEN [writer |-> NoThread, pending |-> allocatorMutex.pending,
          readers |-> Admitted(t)]
    ELSE IF allocatorMutex.readers \ {t} = {}
    THEN [writer |-> allocatorMutex.pending, pending |-> NoThread, readers |-> {}]
    ELSE [allocatorMutex EXCEPT !.readers = @ \ {t}]

\* The threads after t has unlocked and gone on as th (a goroutine ends)
AfterUnlock(t, th, ends) ==
    [x \in DOMAIN threads \ (IF ends THEN {t} ELSE {}) |->
        IF x = t THEN th
        ELSE IF x \in Admitted(t) THEN [threads[x] EXCEPT !.pc = "locked"]
        ELSE threads[x]]

\* What a section leaves: the ledger, the timer table and the backends, the
\* goroutine spawned, and what it returns
SectionResult(o, spawned, uuid, ip, ips) ==
    [owner |-> o.owner, expirationTimers |-> o.expirationTimers, v4 |-> o.v4,
     v6 |-> o.v6, err |-> o.err, spawned |-> spawned, uuid |-> uuid, ip |-> ip,
     ips |-> ips]

\* The functions that run under the mutex of their caller
RunLocked(fn, arg) ==
    CASE fn = "allocateNextFamily" ->
            {SectionResult(r, {}, NoUUID, r.ip, <<>>) :
                r \in allocateNextFamily(arg.family, arg.sync, Metadata(arg.owner))}
      [] fn = "releaseIPLocked" ->
            {SectionResult(r, {}, NoUUID, arg.ip, <<>>) : r \in releaseIPLocked(arg.ip)}

\* This execution of fn reaches its call of CalledUnderLock(fn)
Invokes(fn, arg) ==
    /\ CalledUnderLock(fn) # ""
    /\ fn = "watcher" => watcherReleases(IPString(arg.ip), arg.uuid)

\* The section of fn, from the lock acquired to the deferred unlock
SectionOutcomes(fn, arg) ==
    CASE fn = "allocateIP" ->
            {SectionResult(r, {}, NoUUID, arg.ip, <<>>) :
                r \in allocateIP(arg.ip, arg.sync, Metadata(arg.owner))}
      [] fn = "StartExpirationTimer" ->
            LET r == startExpirationTimer(arg.ip) IN
            {SectionResult(Outcome(owner, r.expirationTimers, IPv4Allocator,
                                   IPv6Allocator, r.err),
                           r.spawned, r.uuid, arg.ip, <<>>)}
      [] fn = "StopExpirationTimer" ->
            LET r == stopExpirationTimer(arg.ip, arg.uuid) IN
            {SectionResult(Outcome(owner, r.expirationTimers, IPv4Allocator,
                                   IPv6Allocator, r.err),
                           {}, NoUUID, arg.ip, <<>>)}
      [] fn = "lookupIPsByOwner" ->
            {SectionResult(Unchanged(NoErr), {}, NoUUID, NilIP, ips) :
                ips \in Orders(lookupIPsByOwner(arg.releaseArg))}
      [] fn = "Dump" -> {SectionResult(Unchanged(NoErr), {}, NoUUID, NilIP, <<>>)}
      [] OTHER ->
            IF Invokes(fn, arg) THEN RunLocked(CalledUnderLock(fn), arg)
            ELSE {SectionResult(Unchanged(NoErr), {}, NoUUID, arg.ip, <<>>)}

\* A call of a function that takes the lock once
SingleCall == [pc |-> "single"]

\* The next call of AllocateNext, AllocateNextWithExpiration or
\* ReleaseIPString that takes the lock, the statements between skipped
RECURSIVE Skip(_)
Skip(call) ==
    CASE call.pc = "ipv6" /\ ~wantsIPv6(call.family) ->
            Skip([call EXCEPT !.pc = "ipv4"])
      [] call.pc = "ipv4" /\ ~wantsIPv4(call.family) ->
            Skip([call EXCEPT !.pc = "expire"])
      [] call.pc = "expire" ->
            Skip([call EXCEPT !.pc = "timers",
                     !.todo = IF call.op = "AllocateNextWithExpiration"
                              THEN resultsToExpire(call.timeout, call.ipv4Result,
                                                   call.ipv6Result)
                              ELSE <<>>])
      [] call.pc \in {"timers", "rollback", "unwind", "release"} /\ call.todo = <<>> ->
            IdleCall
      [] OTHER -> call

\* The function a call at call.pc calls, and its arguments
SectionOf(call) ==
    CASE call.pc \in {"ipv6", "ipv4"} ->
            [fn |-> "AllocateNextFamily",
             arg |-> [NoArg EXCEPT !.family = call.pc, !.owner = call.owner]]
      [] call.pc = "timers" ->
            [fn |-> "StartExpirationTimer", arg |-> [NoArg EXCEPT !.ip = Head(call.todo)]]
      [] call.pc \in {"rollback", "unwind", "release"} ->
            [fn |-> "ReleaseIP", arg |-> [NoArg EXCEPT !.ip = Head(call.todo)]]
      [] call.pc = "lookup" ->
            [fn |-> "lookupIPsByOwner",
             arg |-> [NoArg EXCEPT !.releaseArg = call.releaseArg]]

\* The call after the function called at call.pc returned r
AfterSection(call, r) ==
    CASE call.pc = "single" -> IdleCall
      [] call.pc = "ipv6" ->
            IF r.err # NoErr THEN IdleCall
            ELSE [call EXCEPT !.pc = "ipv4", !.ipv6Result = r.ip]
      [] call.pc = "ipv4" ->
            IF r.err # NoErr
            THEN [call EXCEPT !.pc = "rollback", !.err = r.err,
                              !.todo = rollbackOfAllocateNext(call.ipv6Result)]
            ELSE [call EXCEPT !.pc = "expire", !.ipv4Result = r.ip]
      [] call.pc = "timers" ->
            IF r.err # NoErr
            THEN [call EXCEPT !.pc = "unwind", !.err = r.err,
                              !.todo = rollbackOfExpiration(call.ipv4Result,
                                                            call.ipv6Result)]
            ELSE [call EXCEPT !.todo = Tail(@)]
      [] call.pc \in {"rollback", "unwind", "release"} -> [call EXCEPT !.todo = Tail(@)]
      [] call.pc = "lookup" -> [call EXCEPT !.pc = "release", !.todo = r.ips]

\* The thread running call: back at its caller, or at the next function
ThreadAt(call) ==
    IF call.pc = "idle" THEN IdleCall
    ELSE Entered(SectionOf(call).fn, SectionOf(call).arg, call)

\* The timers a thread may still start
TimersOf(th) ==
    IF th.pc = "idle" THEN 0
    ELSE IF th.call.pc = "single"
    THEN (IF th.fn = "StartExpirationTimer" THEN 1 ELSE 0)
    ELSE IF th.call.pc \in {"ipv6", "ipv4"} /\ th.call.timeout # 0
    THEN Cardinality({f \in {"ipv4", "ipv6"} :
            IF f = "ipv4" THEN wantsIPv4(th.call.family) ELSE wantsIPv6(th.call.family)})
    ELSE IF th.call.pc = "timers" THEN Len(th.call.todo)
    ELSE 0

RECURSIVE TimersReserved(_)
TimersReserved(T) ==
    IF T = {} THEN 0
    ELSE LET t == CHOOSE x \in T : TRUE
         IN TimersOf(threads[t]) + TimersReserved(T \ {t})

\* The run stays within MaxUUID UUIDs when thread th starts
WithinMaxUUID(th) ==
    TimersOf(th) = 0 \/ nextUUID + TimersReserved(DOMAIN threads) + TimersOf(th) <= MaxUUID

\* The name of the goroutine that StartExpirationTimer spawned as w: no two
\* goroutines of a run have the same UUID
GoName(w) == "go " \o ToString(w.allocationUUID)

\* The arguments a thread runs its section with: those its multi-step
\* operation or its goroutine passed, or any that a caller can pass
ArgumentsOf(th) ==
    IF th.call.pc # "single" \/ th.fn = "watcher" THEN {th.arg}
    ELSE CASE th.fn = "allocateIP" ->
                {[NoArg EXCEPT !.ip = ip, !.owner = o, !.sync = s] :
                    ip \in Addresses, o \in Owners, s \in NeedSyncUpstream}
           [] th.fn = "AllocateNextFamily" ->
                {[NoArg EXCEPT !.family = f, !.owner = o, !.sync = s] :
                    f \in Families, o \in Owners, s \in NeedSyncUpstream}
           [] th.fn \in {"ReleaseIP", "StartExpirationTimer"} ->
                {[NoArg EXCEPT !.ip = ip] : ip \in Addresses}
           [] th.fn = "StopExpirationTimer" ->
                {[NoArg EXCEPT !.ip = ip, !.uuid = u] :
                    ip \in Addresses, u \in 1..MaxUUID}
           [] OTHER -> {NoArg}

\* A caller calls a function that takes the lock once.  Nothing reads the
\* arguments of the call before its section runs: they are drawn there.
LockCall(t, fn) ==
    /\ threads[t].pc = "idle"
    /\ WithinMaxUUID(Entered(fn, NoArg, SingleCall))
    /\ ArgumentsOf(Entered(fn, NoArg, SingleCall)) # {}
    /\ threads' = [threads EXCEPT ![t] = Entered(fn, NoArg, SingleCall)]
    /\ UNCHANGED <<owner, expirationTimers, IPv4Allocator, IPv6Allocator,
                   blacklist, watchers, nextUUID, calls, last, allocatorMutex>>

\* A caller calls AllocateNext or AllocateNextWithExpiration
LockCallAllocateNext(t, op, family, o, timeout) ==
    /\ threads[t].pc = "idle"
    /\ LET call == [pc |-> "ipv6", op |-> op, family |-> family, owner |-> o,
                    timeout |-> timeout, ipv4Result |-> NilIP, ipv6Result |-> NilIP,
                    err |-> NoErr, todo |-> <<>>, releaseArg |-> ""]
       IN /\ WithinMaxUUID(ThreadAt(Skip(call)))
          /\ threads' = [threads EXCEPT ![t] = ThreadAt(Skip(call))]
    /\ UNCHANGED <<owner, expirationTimers, IPv4Allocator, IPv6Allocator,
                   blacklist, watchers, nextUUID, calls, last, allocatorMutex>>

\* A caller calls ReleaseIPString
LockCallReleaseIPString(t, releaseArg) ==
    /\ threads[t].pc = "idle"
    /\ LET ip == ParseIP(releaseArg)
           call == [pc |-> IF ip = NilIP THEN "lookup" ELSE "release",
                    op |-> "ReleaseIPString", family |-> "", owner |-> "",
                    timeout |-> 0, ipv4Result |-> NilIP, ipv6Result |-> NilIP,
                    err |-> NoErr, todo |-> IF ip = NilIP THEN <<>> ELSE <<ip>>,
                    releaseArg |-> releaseArg]
       IN threads' = [threads EXCEPT ![t] = ThreadAt(Skip(call))]
    /\ UNCHANGED <<owner, expirationTimers, IPv4Allocator, IPv6Allocator,
                   blacklist, watchers, nextUUID, calls, last, allocatorMutex>>

\* time.Sleep(timeout) of the goroutine w is over
WatcherWakes(w) ==
    /\ w \in watchers
    /\ watchers' = watchers \ {w}
    /\ threads' = MapPut(threads, GoName(w),
                         Entered("watcher",
                                 [NoArg EXCEPT !.ip = w.ip, !.uuid = w.allocationUUID],
                                 SingleCall))
    /\ UNCHANGED <<owner, expirationTimers, IPv4Allocator, IPv6Allocator,
                   blacklist, nextUUID, calls, last, allocatorMutex>>

\* allocatorMutex.Lock() or allocatorMutex.RLock() goes ahead: with no writer
\* holding or waiting, a reader is let in, and a writer is let in or, with
\* readers inside, waits for them to leave and keeps later readers out
Acquire(t) ==
    /\ t \in DOMAIN threads
    /\ allocatorMutex.writer = NoThread
    /\ allocatorMutex.pending = NoThread
    /\ \/ /\ threads[t].pc = "Lock"
          /\ allocatorMutex.readers = {}
          /\ allocatorMutex' = [allocatorMutex EXCEPT !.writer = t]
          /\ threads' = [threads EXCEPT ![t].pc = "locked"]
       \/ /\ threads[t].pc = "Lock"
          /\ allocatorMutex.readers # {}
          /\ allocatorMutex' = [allocatorMutex EXCEPT !.pending = t]
          /\ threads' = threads
       \/ /\ threads[t].pc = "RLock"
          /\ allocatorMutex' = [allocatorMutex EXCEPT !.readers = @ \cup {t}]
          /\ threads' = [threads EXCEPT ![t].pc = "locked"]
    /\ UNCHANGED <<owner, expirationTimers, IPv4Allocator, IPv6Allocator,
                   blacklist, watchers, nextUUID, calls, last>>

\* The section of the thread t: it runs to its deferred unlock, unless it
\* calls a function that asks for the mutex again
Section(t) ==
    /\ t \in DOMAIN threads
    /\ threads[t].pc = "locked"
    /\ \E arg \in ArgumentsOf(threads[t]) :
       LET th == threads[t]
           callee == CalledUnderLock(th.fn)
       IN IF Invokes(th.fn, arg) /\ Acquires(callee) # ""
          THEN /\ threads' = [threads EXCEPT ![t] = Entered(callee, arg, th.call)]
               /\ UNCHANGED <<owner, expirationTimers, IPv4Allocator, IPv6Allocator,
                              watchers, nextUUID, allocatorMutex>>
          ELSE \E r \in SectionOutcomes(th.fn, arg) :
                /\ Apply(r)
                /\ watchers' = watchers \cup r.spawned
                /\ nextUUID' = IF r.spawned # {} THEN r.uuid ELSE nextUUID
                /\ allocatorMutex' = DeferredUnlock(t)
                /\ threads' = AfterUnlock(t, ThreadAt(Skip(AfterSection(th.call, r))),
                                          th.fn = "watcher")
    /\ UNCHANGED <<blacklist, calls, last>>

\* The functions that take the lock once and that callers call
SingleCalls ==
    {"allocateIP", "AllocateNextFamily", "ReleaseIP", "StartExpirationTimer",
     "StopExpirationTimer", "Dump"}

\* What the caller followed through the multi-step operations passes
LockFamilyFilters == {""}
LockReleaseArgs == {CallOwner[c] : c \in Callers} \cup {IPString(ip) : ip \in Addresses}

LockNext ==
    \/ \E t \in LockCallers \ Callers, fn \in SingleCalls : LockCall(t, fn)
    \/ \E c \in Callers, f \in LockFamilyFilters :
            LockCallAllocateNext(c, "AllocateNext", f, CallOwner[c], 0)
    \/ \E c \in Callers, f \in LockFamilyFilters, timeout \in Timeouts \ {0} :
            LockCallAllocateNext(c, "AllocateNextWithExpiration", f, CallOwner[c],
                                 timeout)
    \/ \E c \in Callers, a \in LockReleaseArgs : LockCallReleaseIPString(c, a)
    \/ \E w \in watchers : WatcherWakes(w)
    \/ \E t \in DOMAIN threads : Acquire(t)
    \/ \E t \in DOMAIN threads : Section(t)

\* The threads of a run of LockSpec
LockThreads == LockCallers \cup {GoName(w) : w \in Goroutines}

\* Scheduling: backend calls return, so a thread that holds the mutex runs its
\* section to the end; sync.RWMutex does not starve a waiter (a blocked
\* Lock() keeps later readers out, and Unlock() admits the readers blocked
\* before the next writer), so a thread blocked in Lock() or RLock() is not
\* passed over for ever while the mutex keeps becoming free.
LockSpec ==
    /\ LiveInit
    /\ [][LockNext]_vars
    /\ \A t \in LockThreads : SF_vars(Acquire(t)) /\ WF_vars(Section(t))

-----------------------------------------------------------------------------
(* Properties *)

\* A step that leaves the ledger, the timer table and both backends as they are
StateUnchanged ==
    UNCHANGED <<owner, expirationTimers, IPv4Allocator, IPv6Allocator>>

AllocatedAtBackend(ip) ==
    IF To4(ip) THEN ip \in IPv4Allocator.allocated
    ELSE ip \in IPv6Allocator.allocated

\* ip has no ledger entry, no timer entry and no backend allocation
Gone(ip) ==
    /\ ~MapHas(owner, IPString(ip))
    /\ ~MapHas(expirationTimers, IPString(ip))
    /\ ~AllocatedAtBackend(ip)

\* Gone(ip) in the state a step leads to
GoneAfter(ip) ==
    /\ ~MapHas(owner', IPString(ip))
    /\ ~MapHas(expirationTimers', IPString(ip))
    /\ ip \notin IPv4Allocator'.allocated \cup IPv6Allocator'.allocated

AllocatorOf(ip) == IF To4(ip) THEN IPv4Allocator ELSE IPv6Allocator
ErrDisabled(ip) == IF To4(ip) THEN ErrIPv4Disabled ELSE ErrIPv6Disabled
NonNil(ips) == {ip \in ips : ip # NilIP}

\* C1: a watcher that fires while the timer table holds, for its address, a
\* UUID other than the one it was spawned with (the address was released,
\* reallocated and given a new timer) releases nothing: the ledger, the timer
\* table and the backends are after its step as they were before it.
C1_StaleWatcherReleasesNothing ==
    [][(/\ last'.op = "Watcher"
        /\ MapHas(expirationTimers, IPString(last'.ip))
        /\ expirationTimers[IPString(last'.ip)] # last'.uuid)
       => (~last'.released /\ StateUnchanged)]_vars

C1_Witness ==
    /\ last.op = "Watcher"
    /\ MapHas(owner, IPString(last.ip))
    /\ MapHas(expirationTimers, IPString(last.ip))
    /\ expirationTimers[IPString(last.ip)] > last.uuid

RollbackLogAfter(c) ==
    IF calls'[c].pc = "idle" THEN last'.rollback ELSE calls'[c].rollback

C4_BlacklistedIsRefused ==
    [][(last'.op = "AllocateIP" /\ last'.ip \in blacklist)
       => /\ \E o \in Owners : last'.err = ErrBlacklisted(last'.ip, Metadata(o))
          /\ StateUnchanged]_vars

C4_Witness ==
    /\ last.op = "AllocateIP"
    /\ last.ip \in blacklist
    /\ AllocatorOf(last.ip).nil
    /\ last.err = ErrBlacklisted(last.ip, Metadata("pod-b"))

\* C5: no allocation hands out a blacklisted address: the address of every
\* successful AllocateIP and AllocateNextFamily, and every address returned by
\* AllocateNext and AllocateNextWithExpiration, is not blacklisted.
C5_NeverHandsOutBlacklisted ==
    /\ (last.op \in {"AllocateIP", "AllocateNextFamily"} /\ last.err = NoErr)
       => (last.ip # NilIP /\ last.ip \notin blacklist)
    /\ last.op \in {"AllocateNext", "AllocateNextWithExpiration"}
       => NonNil({last.ipv4Result, last.ipv6Result}) \cap blacklist = {}

C5_Witness ==
    /\ last.op = "AllocateNextFamily"
    /\ last.err = NoErr
    /\ last.iterations > 1
    /\ last.ip \notin blacklist

\* C6: ReleaseIP fails with the family's disabled error when the family has no
\* allocator; when it fails, the ledger, the timer table and the backends are
\* as before the call; when it succeeds, the backend no longer holds the
\* address, and the ledger and the timer table have lost the entry of that
\* address, whatever its UUID, and nothing else.
C6_ReleaseFollowsBackend ==
    [][last'.op = "ReleaseIP"
       => LET ip == last'.ip IN
          /\ AllocatorOf(ip).nil => last'.err = ErrDisabled(ip)
          /\ last'.err # NoErr => StateUnchanged
          /\ last'.err = NoErr
             => /\ owner' = MapDelete(owner, IPString(ip))
                /\ expirationTimers' = MapDelete(expirationTimers, IPString(ip))
                /\ IPv4Allocator'.allocated \cup IPv6Allocator'.allocated
                   = (IPv4Allocator.allocated \cup IPv6Allocator.allocated) \ {ip}
      ]_vars

C6_Witness ==
    /\ last.op = "ReleaseIP"
    /\ last.err = NoErr
    /\ \E w \in watchers : w.ip = last.ip
    /\ Gone(last.ip)
    /\ expirationTimers # EmptyMap

\* The timer table holds allocationUUID for ip
Armed(ip, allocationUUID) ==
    /\ MapHas(expirationTimers, IPString(ip))
    /\ expirationTimers[IPString(ip)] = allocationUUID

\* Armed(ip, allocationUUID) in the state a step leads to
ArmedAfter(ip, allocationUUID) ==
    /\ MapHas(expirationTimers', IPString(ip))
    /\ expirationTimers'[IPString(ip)] = allocationUUID

\* ip is allocated, its timer holds u and the goroutine of u has yet to run
LeaseRunning(ip, u) ==
    /\ MapHas(owner, IPString(ip))
    /\ AllocatedAtBackend(ip)
    /\ Armed(ip, u)
    /\ [ip |-> ip, allocationUUID |-> u] \in watchers

\* StopExpirationTimer(ip, u) has just succeeded
Stopped(ip, u) ==
    /\ last.op = "StopExpirationTimer"
    /\ last.ip = ip /\ last.uuid = u /\ last.err = NoErr

\* The goroutine of u has just attempted the release of ip, which the backend
\* failed
ExpiryFailed(ip, u) ==
    /\ last.op = "Watcher"
    /\ last.ip = ip /\ last.uuid = u
    /\ last.released /\ last.err # NoErr

\* C7: when an expiration timer runs for an allocated address, then, the
\* goroutine and the callers being scheduled fairly, the address comes to have
\* no ledger entry, no timer entry and no backend allocation, unless the timer
\* is stopped or the backend fails the release the goroutine attempts.
C7_LeaseExpires ==
    \A ip \in LiveIPs, u \in 1..MaxUUID :
        LeaseRunning(ip, u) ~> (Gone(ip) \/ Stopped(ip, u) \/ ExpiryFailed(ip, u))

C7_Witness ==
    /\ last.op = "Watcher"
    /\ last.released
    /\ last.err = NoErr
    /\ Gone(last.ip)
    /\ last.ip \notin blacklist

\* C8: once StopExpirationTimer(ip, u) has succeeded, the goroutine spawned
\* for u changes nothing when it runs: (a) the successful stop leaves the timer
\* table without u for ip; (b) a UUID that has been generated and that the
\* timer table does not hold for ip is never held for ip again; (c) a goroutine
\* that runs while the timer table does not hold its UUID for its address
\* releases nothing and leaves the ledger, the timer table and the backends as
\* they are.
C8_StoppedWatcherIsNoOp ==
    [][/\ (last'.op = "StopExpirationTimer" /\ last'.err = NoErr)
          => (Armed(last'.ip, last'.uuid) /\ ~ArmedAfter(last'.ip, last'.uuid))
       /\ \A ip \in AllIPs, u \in 1..nextUUID :
            ~Armed(ip, u) => ~ArmedAfter(ip, u)
       /\ \A w \in watchers :
            (last'.op = "Watcher" /\ last'.ip = w.ip
                /\ last'.uuid = w.allocationUUID /\ w \notin watchers'
                /\ ~Armed(w.ip, w.allocationUUID))
            => (~last'.released /\ StateUnchanged)
      ]_vars

C8_Witness ==
    /\ last.op = "Watcher"
    /\ ~last.released
    /\ ~MapHas(expirationTimers, IPString(last.ip))
    /\ MapHas(owner, IPString(last.ip))
    /\ AllocatedAtBackend(last.ip)
    /\ nextUUID = last.uuid

\* C9: StartExpirationTimer(ip) for an address that has a timer entry fails
\* with "already registered", spawns no goroutine and generates no UUID;
\* StopExpirationTimer(ip, u) fails with "no expiration timer registered" when
\* ip has no timer entry and with "UUID mismatch" when the entry holds another
\* UUID; the three leave the ledger, the timer table and the backends as they
\* are.  The StartExpirationTimer that AllocateNextWithExpiration calls fails
\* alike.  Of the goroutines spawned for an address, at most one has its UUID
\* in the timer table.
C9_TimerViolationsRejected ==
    [][/\ (last'.op = "StartExpirationTimer"
            /\ MapHas(expirationTimers, IPString(last'.ip)))
          => /\ last'.err = ErrAlreadyRegistered
             /\ StateUnchanged
             /\ UNCHANGED <<watchers, nextUUID>>
       /\ (last'.op = "StopExpirationTimer"
            /\ ~MapHas(expirationTimers, IPString(last'.ip)))
          => (last'.err = ErrNotRegistered /\ StateUnchanged)
       /\ (last'.op = "StopExpirationTimer"
            /\ MapHas(expirationTimers, IPString(last'.ip))
            /\ expirationTimers[IPString(last'.ip)] # last'.uuid)
          => (last'.err = ErrUUIDMismatch /\ StateUnchanged)
       /\ \A c \in Callers :
            (/\ calls[c].pc = "timers" /\ calls'[c] # calls[c]
             /\ MapHas(expirationTimers, IPString(Head(calls[c].todo))))
            => /\ calls'[c].pc = "unwind"
               /\ calls'[c].err = ErrAlreadyRegistered
               /\ StateUnchanged
               /\ UNCHANGED <<watchers, nextUUID>>
       /\ \A ip \in AllIPs :
            Cardinality({w \in watchers' :
                w.ip = ip /\ ArmedAfter(ip, w.allocationUUID)}) <= 1
      ]_vars

C9_Witness ==
    /\ last.op = "StartExpirationTimer"
    /\ last.err = ErrAlreadyRegistered
    /\ MapHas(owner, IPString(last.ip))
    /\ Armed(last.ip, nextUUID)
    /\ [ip |-> last.ip, allocationUUID |-> nextUUID] \in watchers

\* The error of the last attempt that failed, nil if none failed
LastFailure(attempts) ==
    LET failed == {i \in 1..Len(attempts) : attempts[i].err # NoErr}
    IN IF failed = {} THEN NoErr
       ELSE attempts[CHOOSE i \in failed : \A j \in failed : j <= i].err

\* C10: ReleaseIPString of a string that is no address (a) finds the
\* addresses whose ledger entry has that string as owner, each once, and fails
\* with "not found", changing nothing, exactly when there is none; (b) calls
\* ReleaseIP for each address found, in the order found, whatever the earlier
\* calls returned: a call that succeeds removes the ledger entry of its
\* address, a call that fails changes nothing; (c) returns the error of the
\* last call that failed, nil if none failed.
C10_ReleaseByOwnerBestEffort ==
    [][\A c \in Callers :
        /\ (calls[c].pc = "idle" /\ calls'[c].pc = "release"
             /\ ParseIP(calls'[c].releaseArg) = NilIP)
           => LET ips == calls'[c].ips IN
              /\ {ips[i] : i \in 1..Len(ips)}
                    = {ip \in AllIPs : /\ MapHas(owner, IPString(ip))
                                       /\ owner[IPString(ip)] = calls'[c].releaseArg}
              /\ \A i, j \in 1..Len(ips) : ips[i] = ips[j] => i = j
              /\ ips # <<>>
              /\ calls'[c].todo = ips
              /\ StateUnchanged
        /\ (last'.op = "ReleaseIPString" /\ last'.attempts = <<>>)
           => /\ last'.err = ErrNotFound(last'.releaseArg)
              /\ ParseIP(last'.releaseArg) = NilIP
              /\ \A k \in DOMAIN owner : owner[k] # last'.releaseArg
              /\ StateUnchanged
        /\ (calls[c].pc = "release" /\ calls'[c] # calls[c])
           => LET ip == Head(calls[c].todo)
                  log == IF calls'[c].pc = "idle" THEN last'.attempts
                         ELSE calls'[c].attempts
                  n == Len(calls[c].attempts) + 1
              IN /\ Len(log) = n
                 /\ \A i \in 1..(n - 1) : log[i] = calls[c].attempts[i]
                 /\ log[n].ip = ip
                 /\ ip = calls[c].ips[n]
                 /\ log[n].err = NoErr => ~MapHas(owner', IPString(ip))
                 /\ log[n].err # NoErr => StateUnchanged
                 /\ IF n < Len(calls[c].ips)
                    THEN /\ calls'[c].pc = "release"
                         /\ calls'[c].todo = Tail(calls[c].todo)
                         /\ calls'[c].ips = calls[c].ips
                    ELSE /\ calls'[c].pc = "idle"
                         /\ last'.op = "ReleaseIPString"
                         /\ last'.err = LastFailure(log)
      ]_vars

C10_Witness ==
    /\ last.op = "ReleaseIPString"
    /\ last.releaseArg = "pod-a"
    /\ Len(last.attempts) = 2
    /\ last.attempts[1].err = NoErr
    /\ ~MapHas(owner, IPString(last.attempts[1].ip))
    /\ last.attempts[2].err # NoErr
    /\ MapHas(owner, IPString(last.attempts[2].ip))
    /\ last.err = last.attempts[2].err

\* The addresses the two backends hold as allocated
AllocatedSet == IPv4Allocator.allocated \cup IPv6Allocator.allocated

\* AllocatedSet in the state a step leads to
AllocatedSetAfter == IPv4Allocator'.allocated \cup IPv6Allocator'.allocated

\* C11: a successful AllocateNextFamily(family, metadata) returns the one
\* candidate of the backend that is not blacklisted, which is of the family
\* asked for and is in the ledger under metadata.Owner; the candidates the
\* backend returned before it are all blacklisted, are in the ledger under
\* metadata.Owner followed by " (blacklisted)" and are still allocated at the
\* backend; the loop ran once per candidate; no other ledger entry, no timer
\* entry and no other backend allocation is changed.
C11_FirstCandidateNotBlacklisted ==
    [][(last'.op = "AllocateNextFamily" /\ last'.err = NoErr)
       => LET ip == last'.ip
              candidates == AllocatedSetAfter \ AllocatedSet
              skipped == candidates \ {ip}
          IN /\ ip \in candidates
             /\ ip \notin blacklist
             /\ To4(ip) <=> last'.family = "ipv4"
             /\ MapHas(owner', IPString(ip))
             /\ owner'[IPString(ip)] = last'.owner
             /\ skipped \subseteq blacklist
             /\ \A b \in skipped :
                  /\ To4(b) <=> To4(ip)
                  /\ MapHas(owner', IPString(b))
                  /\ owner'[IPString(b)] = last'.owner \o " (blacklisted)"
             /\ last'.iterations = Cardinality(candidates)
             /\ AllocatedSet \subseteq AllocatedSetAfter
             /\ \A k \in (DOMAIN owner \cup DOMAIN owner')
                        \ {IPString(c) : c \in candidates} :
                  /\ MapHas(owner, k) /\ MapHas(owner', k)
                  /\ owner'[k] = owner[k]
             /\ expirationTimers' = expirationTimers
      ]_vars

C11_Witness ==
    /\ last.op = "AllocateNextFamily"
    /\ last.err = NoErr
    /\ last.owner = "pod-a"
    /\ last.iterations = 2
    /\ \E b \in blacklist :
        /\ MapHas(owner, IPString(b))
        /\ owner[IPString(b)] = "pod-a (blacklisted)"
        /\ AllocatedAtBackend(b)
        /\ To4(b) = To4(last.ip)
    /\ owner[IPString(last.ip)] = "pod-a"

\* C12 as stated: an AllocateIP, AllocateNextFamily, ReleaseIP,
\* StartExpirationTimer or StopExpirationTimer that returns an error leaves the
\* ledger and the timer table as they were.
C12_AsStated ==
    [][(/\ last'.op \in {"AllocateIP", "AllocateNextFamily", "ReleaseIP",
                         "StartExpirationTimer", "StopExpirationTimer"}
        /\ last'.err # NoErr)
       => (owner' = owner /\ expirationTimers' = expirationTimers)]_vars

\* C12 as amended: an AllocateIP, ReleaseIP, StartExpirationTimer or
\* StopExpirationTimer that returns an error leaves the ledger, the timer table
\* and the backends as they were.  An AllocateNextFamily that returns an error
\* returns no address and leaves the timer table as it was; the ledger has
\* gained an entry, under metadata.Owner followed by " (blacklisted)", for
\* each blacklisted candidate the backend returned before it failed, these
\* candidates stay allocated at the backend, and nothing else is changed.
C12_ErrorsCommitOnlyBlacklisted ==
    [][/\ (/\ last'.op \in {"AllocateIP", "ReleaseIP", "StartExpirationTimer",
                            "StopExpirationTimer"}
           /\ last'.err # NoErr)
          => (StateUnchanged /\ UNCHANGED <<watchers, nextUUID>>)
       /\ (last'.op = "AllocateNextFamily" /\ last'.err # NoErr)
          => LET burned == AllocatedSetAfter \ AllocatedSet
             IN /\ last'.ip = NilIP
                /\ expirationTimers' = expirationTimers
                /\ AllocatedSet \subseteq AllocatedSetAfter
                /\ burned \subseteq blacklist
                /\ \A b \in burned :
                     /\ MapHas(owner', IPString(b))
                     /\ owner'[IPString(b)] = last'.owner \o " (blacklisted)"
                /\ IF last'.iterations = 0 THEN burned = {}
                   ELSE last'.iterations = Cardinality(burned) + 1
                /\ \A k \in (DOMAIN owner \cup DOMAIN owner')
                           \ {IPString(b) : b \in burned} :
                     /\ MapHas(owner, k) /\ MapHas(owner', k)
                     /\ owner'[k] = owner[k]
      ]_vars

C12_Witness ==
    /\ last.op = "AllocateNextFamily"
    /\ last.err = ErrBackendNext
    /\ last.iterations = 2
    /\ \E b \in blacklist :
        /\ MapHas(owner, IPString(b))
        /\ owner[IPString(b)] = last.owner \o " (blacklisted)"
        /\ AllocatedAtBackend(b)

\* C13 as stated: Dump returns the status "Not running" when neither family
\* has an allocator; with both allocators it returns the two status strings of
\* the backends, joined; allocv4 and allocv6 hold, for each address the
\* backend of the family holds, its ledger owner, or "" if the ledger has no
\* entry for it; Dump changes nothing.
C13_AsStated ==
    [][last'.op = "Dump"
       => /\ (IPv4Allocator.nil /\ IPv6Allocator.nil)
             => last'.status = "Not running"
          /\ (~IPv4Allocator.nil /\ ~IPv6Allocator.nil)
             => last'.status = "IPv4: " \o BackendDump(IPv4Allocator).status
                               \o ", IPv6: " \o BackendDump(IPv6Allocator).status
          /\ DOMAIN last'.allocv4
                = IF IPv4Allocator.nil THEN {}
                  ELSE {IPString(ip) : ip \in IPv4Allocator.allocated}
          /\ DOMAIN last'.allocv6
                = IF IPv6Allocator.nil THEN {}
                  ELSE {IPString(ip) : ip \in IPv6Allocator.allocated}
          /\ \A k \in DOMAIN last'.allocv4 :
                last'.allocv4[k] = IF MapHas(owner, k) THEN owner[k] ELSE ""
          /\ \A k \in DOMAIN last'.allocv6 :
                last'.allocv6[k] = IF MapHas(owner, k) THEN owner[k] ELSE ""
          /\ StateUnchanged
      ]_vars

\* What Dump does return: everything C13 states but "Not running"; with no
\* allocator the status is ", ", and with one allocator the status of its
\* backend is joined with the empty string.
C13_DumpNeverNotRunning ==
    [][last'.op = "Dump"
       => /\ last'.status # "Not running"
          /\ (IPv4Allocator.nil /\ IPv6Allocator.nil) => last'.status = ", "
          /\ (~IPv4Allocator.nil /\ IPv6Allocator.nil)
             => last'.status = "IPv4: " \o BackendDump(IPv4Allocator).status \o ", "
          /\ (IPv4Allocator.nil /\ ~IPv6Allocator.nil)
             => last'.status = ", IPv6: " \o BackendDump(IPv6Allocator).status
          /\ (~IPv4Allocator.nil /\ ~IPv6Allocator.nil)
             => last'.status = "IPv4: " \o BackendDump(IPv4Allocator).status
                               \o ", IPv6: " \o BackendDump(IPv6Allocator).status
          /\ \A k \in DOMAIN last'.allocv4 \cup DOMAIN last'.allocv6 :
                MapHas(owner, k)
          /\ StateUnchanged
      ]_vars

\* Dump has run with no allocator
C13_DumpWithoutAllocators ==
    /\ last.op = "Dump"
    /\ IPv4Allocator.nil /\ IPv6Allocator.nil
    /\ last.status = ", "

\* C14 as stated: every address with an entry in the timer table has a
\* goroutine, spawned with the UUID of that entry, that has yet to run.
C14_AsStated ==
    \A k \in DOMAIN expirationTimers :
        \E w \in watchers :
            IPString(w.ip) = k /\ w.allocationUUID = expirationTimers[k]

\* The goroutine of a timer entry has run, its release has failed and the
\* entry is still there, with no goroutine left for it
C14_TimerWithoutWatcher ==
    /\ last.op = "Watcher"
    /\ last.released
    /\ last.err # NoErr
    /\ Armed(last.ip, last.uuid)
    /\ MapHas(owner, IPString(last.ip))
    /\ AllocatedAtBackend(last.ip)
    /\ ~\E w \in watchers : w.ip = last.ip

\* ip is blacklisted and in the ledger under an owner marked " (blacklisted)"
Quarantined(ip) ==
    /\ ip \in blacklist
    /\ MapHas(owner, IPString(ip))
    /\ owner[IPString(ip)] \in {o \o " (blacklisted)" : o \in Owners}

\* The step is a release of ip: a ReleaseIP that succeeded, by a caller, by the
\* goroutine of a timer, or in the loop of ReleaseIPString or of a rollback
ReleaseStepOf(ip) ==
    \/ /\ last'.op = "ReleaseIP" /\ last'.ip = ip /\ last'.err = NoErr
    \/ /\ last'.op = "Watcher" /\ last'.ip = ip
       /\ last'.released /\ last'.err = NoErr
    \/ \E c \in Callers :
        /\ calls[c].pc \in {"release", "rollback", "unwind"}
        /\ calls'[c] # calls[c]
        /\ Head(calls[c].todo) = ip

\* C15 as stated: an address in the ledger under a blacklist-marked owner
\* stays there, and allocated at the backend, whatever step is taken.
C15_AsStated ==
    [][\A ip \in AllIPs :
        Quarantined(ip)
        => /\ MapHas(owner', IPString(ip))
           /\ owner'[IPString(ip)] = owner[IPString(ip)]
           /\ ip \in AllocatedSetAfter
      ]_vars

\* C15 as amended: the entry of an address that is in the ledger under a
\* blacklist-marked owner is never overwritten and no allocation removes it;
\* every step either leaves the entry and the backend allocation as they are,
\* or is a release of that address that succeeded, after which the address has
\* no ledger entry, no timer entry and no backend allocation.
C15_QuarantineEndsOnlyByRelease ==
    [][\A ip \in AllIPs :
        Quarantined(ip)
        => \/ /\ MapHas(owner', IPString(ip))
              /\ owner'[IPString(ip)] = owner[IPString(ip)]
              /\ ip \in AllocatedSetAfter
           \/ /\ GoneAfter(ip)
              /\ ReleaseStepOf(ip)
      ]_vars

C15_Witness ==
    /\ last.op = "ReleaseIPString"
    /\ last.releaseArg = "pod-a (blacklisted)"
    /\ last.err = NoErr
    /\ Len(last.attempts) = 1
    /\ last.attempts[1].ip \in blacklist
    /\ Gone(last.attempts[1].ip)

\* The addresses that have a ledger entry
LedgerSet == {ip \in AllIPs : MapHas(owner, IPString(ip))}

\* LedgerSet in the state a step leads to
LedgerSetAfter == {ip \in AllIPs : MapHas(owner', IPString(ip))}

\* C16: the backends being changed by the IPAM alone, a step adds the ledger
\* entry of an address only if it allocates the address at its backend, and
\* removes it only if it releases the address at its backend; whenever the
\* lock is free the addresses of the ledger are those the backends hold.
C16_LedgerInLockStep ==
    [][/\ LedgerSet = AllocatedSet
       /\ LedgerSetAfter = AllocatedSetAfter
       /\ DOMAIN owner' = {IPString(ip) : ip \in LedgerSetAfter}
       /\ LedgerSetAfter \ LedgerSet \subseteq AllocatedSetAfter \ AllocatedSet
       /\ LedgerSet \ LedgerSetAfter \subseteq AllocatedSet \ AllocatedSetAfter
      ]_vars

C16_Witness ==
    /\ last.op = "ReleaseIP"
    /\ last.err = ErrBackendRelease(last.ip)
    /\ MapHas(owner, IPString(last.ip))
    /\ AllocatedAtBackend(last.ip)
    /\ LedgerSet = AllocatedSet
    /\ Cardinality(LedgerSet) = 2

\* The free addresses of the family's range that are blacklisted
FreeBlacklisted(family) ==
    LET a == IF family = "ipv4" THEN IPv4Allocator ELSE IPv6Allocator
    IN (a.pool \ a.allocated) \cap blacklist

\* C17: an AllocateNextFamily has a return in every state; when the
\* family is known and has an allocator, it returns an address that is not
\* blacklisted, or the error of the backend as the backend gave it, after at
\* most one iteration more than there were free blacklisted addresses in the
\* range of the family.
C17_LoopTerminates ==
    [][/\ Ready => \A f \in Families :
            allocateNextFamily(f, TRUE, Metadata("pod-a")) # {}
       /\ (/\ last'.op = "AllocateNextFamily"
           /\ last'.family \in {"ipv4", "ipv6"}
           /\ ~(IF last'.family = "ipv4" THEN IPv4Allocator ELSE IPv6Allocator).nil)
          => /\ last'.iterations >= 1
             /\ last'.iterations <= Cardinality(FreeBlacklisted(last'.family)) + 1
             /\ \/ last'.err = NoErr /\ last'.ip # NilIP /\ last'.ip \notin blacklist
                \/ last'.err = ErrBackendNext /\ last'.ip = NilIP
      ]_vars

C17_Witness ==
    /\ last.op = "AllocateNextFamily"
    /\ last.err = ErrBackendNext
    /\ last.iterations = 3
    /\ Cardinality({ip \in blacklist : Quarantined(ip)}) = 2

\* C18 as stated: a step of the loop of ReleaseIPString(releaseArg), called
\* with an owner name, removes a ledger entry only if the entry has that owner
\* when the step is taken.
C18_AsStated ==
    [][\A c \in Callers :
        (/\ calls[c].pc = "release"
         /\ calls'[c] # calls[c]
         /\ ParseIP(calls[c].releaseArg) = NilIP
         /\ MapHas(owner, IPString(Head(calls[c].todo)))
         /\ ~MapHas(owner', IPString(Head(calls[c].todo))))
        => owner[IPString(Head(calls[c].todo))] = calls[c].releaseArg
      ]_vars

\* C19 as stated, in what it implies for the ledger: a ReleaseIP of the
\* rollback of AllocateNext or AllocateNextWithExpiration removes a ledger
\* entry only if the entry is the one the call wrote, hence has the owner the
\* call allocates for.
C19_AsStated ==
    [][\A c \in Callers :
        (/\ calls[c].pc \in {"rollback", "unwind"}
         /\ calls'[c] # calls[c]
         /\ MapHas(owner, IPString(Head(calls[c].todo)))
         /\ ~MapHas(owner', IPString(Head(calls[c].todo))))
        => owner[IPString(Head(calls[c].todo))] = calls[c].owner
      ]_vars

\* The thread t is blocked in allocatorMutex.Lock() or allocatorMutex.RLock()
Waiting(t) == t \in DOMAIN threads /\ threads[t].pc \in {"Lock", "RLock"}

\* The thread t is inside a section, between the lock and the deferred unlock
InSection(t) == t \in DOMAIN threads /\ threads[t].pc = "locked"

\* C20: the coordinator lock is free of deadlock.  No caller and no watcher
\* asks for the mutex while it holds it; a thread holds the mutex only inside
\* a section, so every operation, and every watcher, has released it when it
\* returns; and, backend calls returning and the mutex being fair, every
\* thread blocked in Lock() or RLock() acquires the mutex.
C20_DeadlockFree ==
    /\ [](\A t \in LockThreads : Waiting(t) => ~Holds(t))
    /\ [](\A t \in LockThreads : Holds(t) => InSection(t))
    /\ \A t \in LockThreads : Waiting(t) ~> Holds(t)

\* A watcher holds the mutex while a caller in the rollback of a multi-step
\* operation and another caller are blocked in Lock()
C20_Witness ==
    /\ \E w \in Goroutines : Holds(GoName(w)) /\ InSection(GoName(w))
    /\ \E c \in Callers :
        /\ Waiting(c)
        /\ threads[c].call.pc \in {"rollback", "unwind", "release"}
    /\ \E t \in LockCallers \ Callers : Waiting(t)

====
